---------------------------- MODULE Spec2Model ----------------------------
(***************************************************************************)
(* The orchestration control loop of the agent immune system               *)
(* (src/orchestrator.py, src/immune_system/agents.py).                     *)
(*                                                                         *)
(* Two execution contexts share the orchestrator's state:                  *)
(*   - the asyncio event loop, which runs the per-agent loops, the         *)
(*     sentinel sweep, the chaos schedule, run() with its drain, and every *)
(*     heal_agent chain as cooperative tasks: the code between two awaits  *)
(*     of one task is never interleaved with another task of the loop;     *)
(*   - the dashboard's request threads, which call the approval API and    *)
(*     submit heal_agent coroutines to the loop.  They interleave with the *)
(*     loop thread at every lock acquisition.                              *)
(* The collaborators whose code is not part of the sources (quarantine     *)
(* controller, immune memory, healer, diagnostician, sentinel, telemetry,  *)
(* baseline learner, chaos injector, dashboard) follow their contracts in  *)
(* the specification.                                                      *)
(***************************************************************************)
EXTENDS Integers, Sequences, FiniteSets, TLC

(***************************************************************************)
(* Bounds of the model.                                                    *)
(***************************************************************************)
\* Detections the sweep may raise in one run (caps total_infections).
MaxInfections == 2
\* Calls of _log_action in a run that only logs (more than the log's cap).
MaxLogCalls == 120
\* Telemetry samples an agent's loop records in one run.
MaxSamples == 2
\* Samples a baseline is learned from: BaselineLearner(min_samples=15), scaled
\* down to the samples of a run.
MinSamples == 1

(***************************************************************************)
(* Program constants.                                                      *)
(***************************************************************************)
\* SEVERITY_REQUIRING_APPROVAL = 7.0, in tenths of a severity point.
SEVERITY_REQUIRING_APPROVAL == 70
\* self._action_log_max = 80
ActionLogMax == 80

\* self.agents: agent_id -> agent, in insertion (pool) order.
AgentOrder == <<"a1", "a2">>
Agents == {AgentOrder[i] : i \in 1..Len(AgentOrder)}

\* The dashboard's request threads, and run() calling the approval API itself.
UIThreads == {"ui"}
DrainCaller == "drain"
Callers == UIThreads \cup {DrainCaller}

\* Python's None, and the records that stand for "no report", "no entry".
None == "None"
NoInfection == [agent_id |-> None, severity |-> 0, anomalies |-> None, n |-> 0]
NoEntry == [agent_id |-> None, infection |-> NoInfection, diagnosis |-> None]

\* What a detection may report: a severity (tenths) below or exactly at the
\* threshold, and the anomaly pattern the sentinel read off the samples.
Severities == {40, 70}
Anomalies == {"token_spike"}
Reports == {[severity |-> s, anomalies |-> k] : s \in Severities, k \in Anomalies}

\* Diagnostician.diagnose: a pure function of the infection report (the
\* baseline is frozen once learned).
DiagnosisOf == [token_spike |-> "prompt_drift"]
DiagnosisTypes == {DiagnosisOf[k] : k \in Anomalies}
Diagnose(infection) == DiagnosisOf[infection.anomalies]

\* Healer.get_healing_policy: the ordered remediation policy of a category.
HealingPolicy == [prompt_drift |-> <<"reset_memory", "rollback_prompt">>]
HealingActions ==
    UNION {{HealingPolicy[d][i] : i \in 1..Len(HealingPolicy[d])} : d \in DiagnosisTypes}
GetHealingPolicy(diagnosis_type) == HealingPolicy[diagnosis_type]

\* Healer.get_next_action: the first policy action outside the failed set.
GetNextAction(diagnosis_type, failed_actions) ==
    LET policy == GetHealingPolicy(diagnosis_type)
        left == {i \in 1..Len(policy) : policy[i] \notin failed_actions}
    IN  IF left = {} THEN None
        ELSE policy[CHOOSE i \in left : \A j \in left : i <= j]

VARIABLES
    running,                \* self.running
    total_infections,       \* self.total_infections
    total_healed,           \* self.total_healed
    total_failed_healings,  \* self.total_failed_healings
    quarantined,            \* QuarantineController's membership set
    status,                 \* agent.status
    infected,               \* agent.infected
    agent_pc,               \* run_agent_loop: "tick" (sleeping out the tick of
                            \* an execution), "skip" (sleeping out the tick of
                            \* a quarantined agent) or "exec" (in execute)
    samples,                \* TelemetryCollector.get_count per agent
    baseline,               \* the agents BaselineLearner.has_baseline holds for
    pending,                \* self._pending_approvals (a dict, in insertion order)
    rejected,               \* self._rejected_approvals
    healing_in_progress,    \* self.healing_in_progress
    log,                    \* self._healing_action_log
    log_calls,              \* how many times _log_action has been called
    memory,                 \* ImmuneMemory's records: how many per key
    chains,                 \* the heal_agent tasks not yet finished
    next_chain,             \* tasks created so far + 1 (a task's identity)
    episodes_ended,         \* heal_agent chains that reached a terminal state
    exhausted,              \* agents whose last chain ended in exhaustion and
                            \* that have not been infected or cured since
    sweep,                  \* sentinel_loop: position in its for loop
    drain,                  \* run(): position in the drain, and drain_tasks
    call                    \* per caller: the approval-API call it is in

vars == <<running, total_infections, total_healed, total_failed_healings,
          quarantined, status, infected, agent_pc, samples, baseline,
          pending, rejected, healing_in_progress, log, log_calls, memory,
          chains, next_chain, episodes_ended, exhausted, sweep, drain, call>>

counters == <<total_infections, total_healed, total_failed_healings>>
agentvars == <<status, infected>>
telemetry == <<agent_pc, samples, baseline>>
approvals == <<pending, rejected>>
healvars == <<healing_in_progress, memory, chains, next_chain, episodes_ended,
              exhausted>>
logvars == <<log, log_calls>>

(***************************************************************************)
(* Dictionaries (pending / rejected approvals) as insertion-ordered        *)
(* sequences of [agent_id, infection, diagnosis].                          *)
(***************************************************************************)
Keys(d) == [i \in 1..Len(d) |-> d[i].agent_id]
Has(d, agent_id) == \E i \in 1..Len(d) : d[i].agent_id = agent_id
Get(d, agent_id) ==
    IF Has(d, agent_id)
    THEN d[CHOOSE i \in 1..Len(d) : d[i].agent_id = agent_id]
    ELSE NoEntry
Remove(d, agent_id) == SelectSeq(d, LAMBDA e : e.agent_id # agent_id)
\* d[agent_id] = entry: a key already present keeps its position.
Put(d, entry) ==
    IF Has(d, entry.agent_id)
    THEN [i \in 1..Len(d) |-> IF d[i].agent_id = entry.agent_id THEN entry ELSE d[i]]
    ELSE Append(d, entry)

\* dict.pop(agent_id, None) leaves the dictionary without the key.
DictPopKeeps(d, agent_id) == d
DictPop(d, agent_id) == Remove(d, agent_id)

Entry(infection) ==
    [agent_id |-> infection.agent_id, infection |-> infection,
     diagnosis |-> Diagnose(infection)]

(***************************************************************************)
(* _log_action: append, then keep the newest ActionLogMax entries.         *)
(***************************************************************************)
LogActionKeepsOldest(l, entry) ==
    IF Len(l) >= ActionLogMax THEN l ELSE Append(l, entry)
LogAction(l, entry) ==
    LET appended == Append(l, entry)
    IN  IF Len(appended) > ActionLogMax
        THEN SubSeq(appended, Len(appended) - ActionLogMax + 1, Len(appended))
        ELSE appended

\* One call of _log_action (the append and the trim are under one lock).
LogCall(entry) ==
    /\ log' = LogAction(log, entry)
    /\ log_calls' = log_calls + 1

\* The entry of a call without keyword arguments.
LogEntry(type, agent_id) == [type |-> type, agent_id |-> agent_id]

(***************************************************************************)
(* Collaborators.                                                          *)
(***************************************************************************)
\* QuarantineController
IsQuarantined(agent_id) == agent_id \in quarantined
QuarantineAdd(q, agent_id) == q \cup {agent_id}
QuarantineRelease(q, agent_id) == q \ {agent_id}

\* ImmuneMemory
MemoryKeys == Agents \X DiagnosisTypes \X HealingActions \X BOOLEAN
RecordHealing(mem, agent_id, diagnosis_type, action, success) ==
    LET k == <<agent_id, diagnosis_type, action, success>>
    IN  [mem EXCEPT ![k] = @ + 1]
GetFailedActions(mem, agent_id, diagnosis_type) ==
    {act \in HealingActions : mem[<<agent_id, diagnosis_type, act, FALSE>>] > 0}

\* TelemetryCollector.get_recent and Sentinel.detect_infection: the reports a
\* sweep may get for an agent with a baseline (the samples' values are not
\* held here, so any report may come, or none).  n numbers the detections.
DetectInfection(agent_id, n) ==
    {[agent_id |-> agent_id, severity |-> r.severity,
      anomalies |-> r.anomalies, n |-> n] : r \in Reports}

\* BaseAgent.release
ReleasedStatusHealthy(agent_id) == "healthy"
ReleasedStatus(agent_id) == IF infected[agent_id] THEN "infected" ELSE "healthy"

(***************************************************************************)
(* The approval-API call a caller is in.                                   *)
(*   op      approve | approve_all | heal_now | heal_all                   *)
(*   pc      idle | next (bulk: before the next single call) | log |       *)
(*           store | ret (returned; the caller has not used the result)    *)
(*   ids     bulk: the snapshot's keys not yet handled                     *)
(*   entry   the entry popped by the single call in progress               *)
(*   acc     bulk: the list built so far; at ret, the list returned        *)
(*   result  single: (infection, approved) returned                        *)
(*   snap    bulk: the entries of the map when the snapshot was taken      *)
(*   alone   no other caller was in approve_healing / approve_all_pending  *)
(*           since this call began                                         *)
(***************************************************************************)
NoResult == [infection |-> NoInfection, approved |-> FALSE]
Idle == [pc |-> "idle", op |-> None, agent_id |-> None, approved |-> FALSE,
         ids |-> <<>>, entry |-> NoEntry, acc |-> <<>>, result |-> NoResult,
         snap |-> <<>>, alone |-> TRUE]

ApproveOps == {"approve", "approve_all"}
HealNowOps == {"heal_now", "heal_all"}
BulkOps == {"approve_all", "heal_all"}

\* The (agent_id, infection) pairs a returned call hands to its caller.
Returned(k) ==
    IF k.op \in BulkOps THEN k.acc
    ELSE IF k.result.infection # NoInfection /\ (k.op = "heal_now" \/ k.result.approved)
         THEN <<(<<k.agent_id, k.result.infection>>)>>
         ELSE <<>>

(***************************************************************************)
(* The event loop runs one task at a time: while the sweep is inside its   *)
(* for loop, or run() is inside the synchronous part of the drain, no      *)
(* other task of the loop takes a step.                                    *)
(***************************************************************************)
LoopFree ==
    /\ sweep.pc = "sleep"
    /\ drain.pc \in {"run", "gather", "poll"}

\* A request thread whose call returned nothing to schedule goes back to
\* idle before anything else moves: that return touches no shared state, so
\* every interleaving with it is equivalent to this one.
UIQuiet == \A u \in UIThreads : ~(call[u].pc = "ret" /\ Returned(call[u]) = <<>>)

\* The run is on (run() sets running before it starts the tasks, and the
\* process ends when it returns) and no request thread is about to return.
Go == running /\ UIQuiet

Init ==
    /\ running = TRUE
    /\ total_infections = 0
    /\ total_healed = 0
    /\ total_failed_healings = 0
    /\ quarantined = {}
    /\ status = [a \in Agents |-> "healthy"]
    /\ infected = [a \in Agents |-> FALSE]
    /\ agent_pc = [a \in Agents |-> "tick"]
    /\ samples = [a \in Agents |-> 0]
    /\ baseline = {}
    /\ pending = <<>>
    /\ rejected = <<>>
    /\ healing_in_progress = {}
    /\ log = <<>>
    /\ log_calls = 0
    /\ memory = [k \in MemoryKeys |-> 0]
    /\ chains = {}
    /\ next_chain = 1
    /\ episodes_ended = 0
    /\ exhausted = {}
    /\ sweep = [pc |-> "sleep", i |-> 0, infection |-> NoInfection]
    /\ drain = [pc |-> "run", tasks |-> {}, timed_out |-> FALSE]
    /\ call = [c \in Callers |-> Idle]

(***************************************************************************)
(* run_agent_loop                                                          *)
(***************************************************************************)
\* `if self.quarantine.is_quarantined(agent.agent_id):` at the top of an
\* iteration.
LoopSkipsNever(a) == FALSE
LoopSkips(a) == IsQuarantined(a)

\* The top of an iteration, after either sleep: a quarantined agent only
\* sleeps one tick, any other enters execute.
AgentTick(a) ==
    /\ Go /\ LoopFree
    /\ agent_pc[a] \in {"tick", "skip"}
    /\ IF LoopSkips(a)
       THEN agent_pc' = [agent_pc EXCEPT ![a] = "skip"]
       ELSE /\ samples[a] < MaxSamples
            /\ agent_pc' = [agent_pc EXCEPT ![a] = "exec"]
    /\ UNCHANGED <<running, counters, quarantined, agentvars, samples, baseline,
                   approvals, healvars, logvars, sweep, drain, call>>

\* BaselineLearner.is_baseline_ready / learn_baseline: a baseline is learned
\* once, from the first min_samples samples, and then frozen.
IsBaselineReady(a, count) == a \notin baseline /\ count >= MinSamples
HasBaselineAlways(a) == TRUE
HasBaseline(a) == a \in baseline

\* execute() returns its sample; it is recorded and the baseline learned when
\* ready, then the loop sleeps out the tick.
AgentRecord(a) ==
    /\ Go /\ LoopFree
    /\ agent_pc[a] = "exec"
    /\ samples' = [samples EXCEPT ![a] = @ + 1]
    /\ baseline' = IF IsBaselineReady(a, samples'[a])
                   THEN baseline \cup {a} ELSE baseline
    /\ agent_pc' = [agent_pc EXCEPT ![a] = "tick"]
    /\ UNCHANGED <<running, counters, quarantined, agentvars, approvals,
                   healvars, logvars, sweep, drain, call>>

\* The first 15 s of run(): sentinel_loop and the chaos schedule are in their
\* first sleep and nothing is pending, so the agents' loops run alone, and
\* each records the samples its baseline is learned from.
Warmup ==
    /\ Go /\ LoopFree
    /\ baseline = {}
    /\ \A a \in Agents : samples[a] = 0 /\ agent_pc[a] = "tick"
    /\ samples' = [a \in Agents |-> MinSamples]
    /\ baseline' = Agents
    /\ UNCHANGED <<running, counters, quarantined, agentvars, agent_pc,
                   approvals, healvars, logvars, sweep, drain, call>>

(***************************************************************************)
(* chaos_injection_schedule: a wave infects some of the agents that are    *)
(* not infected (BaseAgent.infect sets the status too).  The waves' times  *)
(* are not modelled: a wave may come at any moment of the run.             *)
(***************************************************************************)
ChaosWave ==
    /\ Go /\ LoopFree
    /\ \E targets \in (SUBSET {a \in Agents : ~infected[a]}) \ {{}} :
          /\ infected' = [a \in Agents |-> infected[a] \/ a \in targets]
          /\ status' = [a \in Agents |-> IF a \in targets THEN "infected"
                                         ELSE status[a]]
          /\ exhausted' = exhausted \ targets
    /\ UNCHANGED <<running, counters, quarantined, telemetry, approvals,
                   healing_in_progress, memory, chains, next_chain,
                   episodes_ended, logvars, sweep, drain, call>>

(***************************************************************************)
(* sentinel_loop                                                           *)
(***************************************************************************)
SeverityRequiresApprovalStrict(severity) == severity > SEVERITY_REQUIRING_APPROVAL
SeverityRequiresApproval(severity) == severity >= SEVERITY_REQUIRING_APPROVAL

\* The `continue`s of one iteration that the state decides: the agent is
\* quarantined, has no baseline yet, or is rejected and waiting for "Heal now".
SweepSkipsUnguarded(a) == FALSE
SweepSkips(a) ==
    \/ IsQuarantined(a)
    \/ ~HasBaseline(a)
    \/ Has(rejected, a)

\* The for loop from agent `from` on, after `detected` detections: it stops at
\* an agent it does not skip and for which the sentinel reports an infection,
\* or reaches the 1 s sleep with every agent done.
SweepScan(from, detected) ==
    LET stops == {j \in from..Len(AgentOrder) : ~SweepSkips(AgentOrder[j])} IN
    {[pc |-> "sleep", i |-> 0, infection |-> NoInfection]} \cup
    IF detected >= MaxInfections
    THEN {}
    ELSE UNION {{[pc |-> "detected", i |-> j, infection |-> infection] :
                    infection \in DetectInfection(AgentOrder[j], detected + 1)} :
                j \in stops}

\* The sweep wakes up and runs its for loop up to the first detection.
SweepBegin ==
    /\ Go /\ LoopFree
    /\ sweep' \in SweepScan(1, total_infections)
    /\ sweep'.pc = "detected"
    /\ UNCHANGED <<running, counters, quarantined, agentvars, telemetry,
                   approvals, healvars, logvars, drain, call>>

\* A new heal_agent task, not yet run.
\*   failed_actions, action: the locals of the current heal_agent frame
\*   tried: the actions this chain applied and saw fail
\*   known: the failed actions immune memory held when the chain started
NewChain(infection, trigger, id) ==
    [id |-> id, agent_id |-> infection.agent_id, infection |-> infection,
     trigger |-> trigger, pc |-> "start", failed_actions |-> {},
     action |-> None, tried |-> <<>>, known |-> {}]

\* asyncio.create_task / run_coroutine_threadsafe for each (agent_id, infection).
RECURSIVE Schedule(_, _, _, _)
Schedule(tasks, list, trigger, id) ==
    IF list = <<>> THEN tasks
    ELSE Schedule(tasks \cup {NewChain(Head(list)[2], trigger, id)},
                  Tail(list), trigger, id + 1)

\* self.quarantine.quarantine(agent_id), right after the detection is counted.
SweepQuarantineSkipped(q, agent_id) == q
SweepQuarantines(q, agent_id) == QuarantineAdd(q, agent_id)

\* Count the infection, quarantine the agent; a mild infection is healed at
\* once, and the for loop goes on.
SweepQuarantine ==
    /\ Go
    /\ sweep.pc = "detected"
    /\ LET a == AgentOrder[sweep.i]
           infection == sweep.infection
       IN  /\ total_infections' = total_infections + 1
           /\ quarantined' = SweepQuarantines(quarantined, a)
           /\ status' = [status EXCEPT ![a] = "quarantined"]
           /\ IF SeverityRequiresApproval(infection.severity)
              THEN /\ sweep' = [sweep EXCEPT !.pc = "pending"]
                   /\ UNCHANGED <<chains, next_chain>>
              ELSE /\ chains' = chains \cup {NewChain(infection, "auto", next_chain)}
                   /\ next_chain' = next_chain + 1
                   /\ sweep' \in SweepScan(sweep.i + 1, total_infections')
    /\ UNCHANGED <<running, total_healed, total_failed_healings, infected,
                   telemetry, approvals, healing_in_progress, memory,
                   episodes_ended, exhausted, logvars, drain, call>>

\* with self._pending_lock: self._pending_approvals[agent_id] = {...}
SweepPending ==
    /\ Go
    /\ sweep.pc = "pending"
    /\ pending' = Put(pending, Entry(sweep.infection))
    /\ sweep' = [sweep EXCEPT !.pc = "log"]
    /\ UNCHANGED <<running, counters, quarantined, agentvars, telemetry,
                   rejected, healvars, logvars, drain, call>>

\* The approval_requested entry, and the for loop goes on.
SweepLog ==
    /\ Go
    /\ sweep.pc = "log"
    /\ LogCall([type |-> "approval_requested",
                              agent_id |-> sweep.infection.agent_id,
                              severity |-> sweep.infection.severity])
    /\ sweep' \in SweepScan(sweep.i + 1, total_infections)
    /\ UNCHANGED <<running, counters, quarantined, agentvars, telemetry,
                   approvals, healvars, drain, call>>

(***************************************************************************)
(* heal_agent: one task per chain; the recursive call continues the task.  *)
(***************************************************************************)
\* Entry of heal_agent (the task's first run, or the recursive call after a
\* failed action): mark the agent, diagnose, sleep.
HealStart(c) ==
    /\ Go /\ LoopFree
    /\ c.pc \in {"start", "escalate"}
    /\ healing_in_progress' = healing_in_progress \cup {c.agent_id}
    /\ chains' = (chains \ {c}) \cup
          {[c EXCEPT !.pc = "diag",
                     !.known = IF c.pc = "start"
                               THEN GetFailedActions(memory, c.agent_id,
                                                     Diagnose(c.infection))
                               ELSE @]}
    /\ UNCHANGED <<running, counters, quarantined, agentvars, telemetry,
                   approvals, memory, next_chain, episodes_ended, exhausted, logvars, sweep,
                   drain, call>>

\* failed_actions = self.immune_memory.get_failed_actions(agent_id,
\* diagnosis.diagnosis_type)
FailedActionsOfAnyAgent(c) ==
    UNION {GetFailedActions(memory, a, Diagnose(c.infection)) : a \in Agents}
FailedActionsOf(c) == GetFailedActions(memory, c.agent_id, Diagnose(c.infection))

\* The policy and the failed actions of immune memory, then sleep.
HealPlan(c) ==
    /\ Go /\ LoopFree
    /\ c.pc = "diag"
    /\ chains' = (chains \ {c}) \cup
          {[c EXCEPT !.pc = "plan", !.failed_actions = FailedActionsOf(c)]}
    /\ UNCHANGED <<running, counters, quarantined, agentvars, telemetry,
                   approvals, healing_in_progress, memory, next_chain,
                   episodes_ended, exhausted, logvars, sweep, drain, call>>

\* finally: self.healing_in_progress.discard(agent_id), run by every frame of
\* the chain when the innermost one returns.
FinallyKeeps(h, agent_id) == h
FinallyDiscard(h, agent_id) == h \ {agent_id}

\* The next action; with none left the agent is released unhealed and the
\* chain ends (every frame's finally discards the agent).
HealSelect(c) ==
    /\ Go /\ LoopFree
    /\ c.pc = "plan"
    /\ LET next_action == GetNextAction(Diagnose(c.infection), c.failed_actions) IN
       IF next_action = None
       THEN /\ quarantined' = QuarantineRelease(quarantined, c.agent_id)
            /\ status' = [status EXCEPT ![c.agent_id] = ReleasedStatus(c.agent_id)]
            /\ healing_in_progress' = FinallyDiscard(healing_in_progress, c.agent_id)
            /\ chains' = chains \ {c}
            /\ episodes_ended' = episodes_ended + 1
            /\ exhausted' = exhausted \cup {c.agent_id}
       ELSE /\ chains' = (chains \ {c}) \cup
                  {[c EXCEPT !.pc = "apply", !.action = next_action]}
            /\ UNCHANGED <<quarantined, status, healing_in_progress, episodes_ended, exhausted>>
    /\ UNCHANGED <<running, counters, infected, telemetry, approvals, memory,
                   next_chain, logvars, sweep, drain, call>>

\* The healing_attempt entry of the action log.
HealingAttempt(c, passed) ==
    [type |-> "healing_attempt", agent_id |-> c.agent_id,
     diagnosis_type |-> Diagnose(c.infection), action |-> c.action,
     success |-> passed, trigger |-> c.trigger]

\* What heal_agent hands to immune_memory.record_healing as success.
RecordedSuccessAlways(passed) == TRUE
RecordedSuccess(passed) == passed

\* `if result.validation_passed:`
HealingSucceededNever(passed) == FALSE
HealingSucceeded(passed) == passed

\* await self.heal_agent(agent_id, infection, trigger=trigger): the trigger
\* the next frame gets.
EscalationTriggerDefault(c) == "auto"
EscalationTrigger(c) == c.trigger

\* apply_healing returns (a passing action has cured the agent): record,
\* log, then release on success or escalate on failure.
HealApplied(c, passed) ==
    /\ Go /\ LoopFree
    /\ c.pc = "apply"
    /\ memory' = RecordHealing(memory, c.agent_id, Diagnose(c.infection),
                               c.action, RecordedSuccess(passed))
    /\ LogCall(HealingAttempt(c, passed))
    /\ IF HealingSucceeded(passed)
       THEN /\ infected' = [infected EXCEPT ![c.agent_id] = FALSE]
            /\ quarantined' = QuarantineRelease(quarantined, c.agent_id)
            /\ status' = [status EXCEPT ![c.agent_id] = "healthy"]
            /\ total_healed' = total_healed + 1
            /\ healing_in_progress' = FinallyDiscard(healing_in_progress, c.agent_id)
            /\ chains' = chains \ {c}
            /\ episodes_ended' = episodes_ended + 1
            /\ exhausted' = exhausted \ {c.agent_id}
            /\ UNCHANGED total_failed_healings
       ELSE /\ total_failed_healings' = total_failed_healings + 1
            /\ chains' = (chains \ {c}) \cup
                  {[c EXCEPT !.pc = "escalate", !.tried = Append(@, c.action),
                             !.trigger = EscalationTrigger(c)]}
            /\ UNCHANGED <<infected, quarantined, status, total_healed,
                           healing_in_progress, episodes_ended, exhausted>>
    /\ UNCHANGED <<running, total_infections, telemetry, approvals, next_chain,
                   sweep, drain, call>>

(***************************************************************************)
(* The approval API: approve_healing, approve_all_pending,                 *)
(* start_healing_explicitly, start_healing_all_rejected.  One step per     *)
(* lock acquisition; what a thread does between two of them is its own.    *)
(***************************************************************************)
InApprove(k) == k.op \in ApproveOps /\ k.pc \in {"next", "log", "store"}

\* Caller c's call becomes k; a call of approve_healing / approve_all_pending
\* that starts now overlaps those in progress.
SetCall(c, k, starting) ==
    call' = [d \in Callers |->
                IF d = c
                THEN IF starting
                     THEN [k EXCEPT !.alone = \A e \in Callers \ {c} : ~InApprove(call[e])]
                     ELSE k
                ELSE IF starting /\ k.op \in ApproveOps /\ InApprove(call[d])
                     THEN [call[d] EXCEPT !.alone = FALSE]
                     ELSE call[d]]

\* `if did_approve and infection:` / `if infection:` of the bulk calls.
ApprovedListTakesNothing(op, result) == FALSE
ApprovedListTakes(op, result) ==
    /\ result.infection # NoInfection
    /\ op = "heal_all" \/ result.approved

\* A single call returns `result`: to the caller, or to the bulk call's for
\* loop, which takes the next id or returns its list.
InnerReturn(k, result) ==
    IF k.op \in BulkOps
    THEN LET acc == IF ApprovedListTakes(k.op, result)
                    THEN Append(k.acc, <<k.agent_id, result.infection>>)
                    ELSE k.acc
             ids == Tail(k.ids)
         IN  [k EXCEPT !.acc = acc, !.ids = ids, !.entry = NoEntry,
                       !.pc = IF ids = <<>> THEN "ret" ELSE "next"]
    ELSE [k EXCEPT !.pc = "ret", !.result = result, !.entry = NoEntry]

\* The map an operation pops from.
MapOf(op) == IF op \in ApproveOps THEN pending ELSE rejected

\* `if not entry: return None, False` (approve_healing), `return None`
\* (start_healing_explicitly): no entry, nothing changes.
MissingEntryLogs(c, k, a, starting) ==
    /\ SetCall(c, InnerReturn([k EXCEPT !.agent_id = a], NoResult), starting)
    /\ LogCall(LogEntry("user_rejected", a))
    /\ UNCHANGED approvals
MissingEntry(c, k, a, starting) ==
    /\ SetCall(c, InnerReturn([k EXCEPT !.agent_id = a], NoResult), starting)
    /\ UNCHANGED <<approvals, logvars>>

\* with self._pending_lock: entry = <map>.pop(agent_id, None)
PopStep(c, k, a, starting) ==
    IF Has(MapOf(k.op), a)
    THEN /\ SetCall(c, [k EXCEPT !.pc = "log", !.agent_id = a,
                                 !.entry = Get(MapOf(k.op), a)], starting)
         /\ IF k.op \in ApproveOps
            THEN pending' = DictPop(pending, a) /\ UNCHANGED rejected
            ELSE rejected' = DictPop(rejected, a) /\ UNCHANGED pending
         /\ UNCHANGED logvars
    ELSE MissingEntry(c, k, a, starting)

\* with self._pending_lock: agent_ids = list(<map>.keys())
SnapshotStep(c, op, approved) ==
    LET k == [Idle EXCEPT !.op = op, !.approved = approved,
                          !.ids = Keys(MapOf(op)), !.snap = MapOf(op),
                          !.pc = IF MapOf(op) = <<>> THEN "ret" ELSE "next"]
    IN  SetCall(c, k, TRUE)

\* A request thread calls approve_healing(a, approved).
UIApprove(u, a, approved) ==
    /\ Go
    /\ call[u].pc = "idle"
    /\ PopStep(u, [Idle EXCEPT !.op = "approve", !.approved = approved], a, TRUE)
    /\ UNCHANGED <<running, counters, quarantined, agentvars, telemetry,
                   healvars, sweep, drain>>

\* A request thread calls start_healing_explicitly(a).
UIHealNow(u, a) ==
    /\ Go
    /\ call[u].pc = "idle"
    /\ PopStep(u, [Idle EXCEPT !.op = "heal_now"], a, TRUE)
    /\ UNCHANGED <<running, counters, quarantined, agentvars, telemetry,
                   healvars, sweep, drain>>

\* A request thread calls approve_all_pending(approved).
UIApproveAll(u, approved) ==
    /\ Go
    /\ call[u].pc = "idle"
    /\ SnapshotStep(u, "approve_all", approved)
    /\ UNCHANGED <<running, counters, quarantined, agentvars, telemetry,
                   approvals, healvars, logvars, sweep, drain>>

\* A request thread calls start_healing_all_rejected().
UIHealAll(u) ==
    /\ Go
    /\ call[u].pc = "idle"
    /\ SnapshotStep(u, "heal_all", FALSE)
    /\ UNCHANGED <<running, counters, quarantined, agentvars, telemetry,
                   approvals, healvars, logvars, sweep, drain>>

\* A bulk call's for loop calls the single operation for the next id.
CallNext(c) ==
    /\ Go
    /\ call[c].pc = "next"
    /\ PopStep(c, call[c], Head(call[c].ids), FALSE)
    /\ UNCHANGED <<running, counters, quarantined, agentvars, telemetry,
                   healvars, sweep, drain>>

\* What approve_healing / start_healing_explicitly do to healing_in_progress
\* on their way to `return infection`: nothing, the caller schedules.
ApprovalStartsHealing(h, agent_id) == h \cup {agent_id}
ApprovalLeavesHealing(h, agent_id) == h

\* _log_action("user_approved" | "user_rejected" | "explicit_heal_requested");
\* an approval and a heal-now return the stored infection.
CallLog(c) ==
    /\ Go
    /\ call[c].pc = "log"
    /\ healing_in_progress' =
          ApprovalLeavesHealing(healing_in_progress, call[c].agent_id)
    /\ LET k == call[c]
           type == IF k.op \in HealNowOps THEN "explicit_heal_requested"
                   ELSE IF k.approved THEN "user_approved" ELSE "user_rejected"
       IN  /\ LogCall(LogEntry(type, k.agent_id))
           /\ IF k.op \in ApproveOps /\ ~k.approved
              THEN SetCall(c, [k EXCEPT !.pc = "store"], FALSE)
              ELSE SetCall(c, InnerReturn(k, [infection |-> k.entry.infection,
                                              approved |-> k.op \in ApproveOps]),
                           FALSE)
    /\ UNCHANGED <<running, counters, quarantined, agentvars, telemetry,
                   approvals, memory, chains, next_chain, episodes_ended,
                   exhausted, sweep, drain>>

\* with self._pending_lock: self._rejected_approvals[agent_id] = {...};
\* return None, False
CallStore(c) ==
    /\ Go
    /\ call[c].pc = "store"
    /\ rejected' = Put(rejected, call[c].entry)
    /\ SetCall(c, InnerReturn(call[c], NoResult), FALSE)
    /\ UNCHANGED <<running, counters, quarantined, agentvars, telemetry,
                   pending, healvars, logvars, sweep, drain>>

\* The dashboard submits heal_agent to the loop for what the call returned.
UITrigger(op) == IF op \in ApproveOps THEN "user_approved" ELSE "heal_now"
UIReturn(u) ==
    /\ running
    /\ call[u].pc = "ret"
    /\ chains' = Schedule(chains, Returned(call[u]), UITrigger(call[u].op), next_chain)
    /\ next_chain' = next_chain + Len(Returned(call[u]))
    /\ call' = [call EXCEPT ![u] = Idle]
    /\ UNCHANGED <<running, counters, quarantined, agentvars, telemetry,
                   approvals, healing_in_progress, memory, episodes_ended, exhausted, logvars,
                   sweep, drain>>

(***************************************************************************)
(* run(): the drain and the shutdown.                                      *)
(***************************************************************************)
\* The run duration is over: approve_all_pending(True).
DrainBegin ==
    /\ Go /\ LoopFree
    /\ drain.pc = "run"
    /\ SnapshotStep(DrainCaller, "approve_all", TRUE)
    /\ drain' = [drain EXCEPT !.pc = "approve_all"]
    /\ UNCHANGED <<running, counters, quarantined, agentvars, telemetry,
                   approvals, healvars, logvars, sweep>>

TaskIds(from, n) == from..(from + n - 1)

\* A task per approved entry, then start_healing_all_rejected().
DrainApproved ==
    /\ Go
    /\ drain.pc = "approve_all"
    /\ call[DrainCaller].pc = "ret"
    /\ LET list == Returned(call[DrainCaller]) IN
       /\ chains' = Schedule(chains, list, "drain_approve", next_chain)
       /\ next_chain' = next_chain + Len(list)
       /\ drain' = [drain EXCEPT
                       !.pc = "heal_all",
                       !.tasks = @ \cup TaskIds(next_chain, Len(list))]
    /\ SnapshotStep(DrainCaller, "heal_all", FALSE)
    /\ UNCHANGED <<running, counters, quarantined, agentvars, telemetry,
                   approvals, healing_in_progress, memory, episodes_ended, exhausted, logvars,
                   sweep>>

\* `while self.healing_in_progress and time.time() < deadline`, at the moment
\* the deadline is set: sleep, or shut down at once.
PollOrShutdown(tasks) ==
    IF healing_in_progress # {}
    THEN /\ drain' = [drain EXCEPT !.pc = "poll", !.tasks = tasks]
         /\ UNCHANGED running
    ELSE /\ drain' = [drain EXCEPT !.pc = "done", !.tasks = tasks]
         /\ running' = FALSE

\* A task per rejected entry; gather them, or go on to the poll loop.
DrainHealed ==
    /\ Go
    /\ drain.pc = "heal_all"
    /\ call[DrainCaller].pc = "ret"
    /\ LET list == Returned(call[DrainCaller])
           tasks == drain.tasks \cup TaskIds(next_chain, Len(list))
       IN  /\ chains' = Schedule(chains, list, "drain_heal_now", next_chain)
           /\ next_chain' = next_chain + Len(list)
           /\ IF tasks # {}
              THEN /\ drain' = [drain EXCEPT !.pc = "gather", !.tasks = tasks]
                   /\ UNCHANGED running
              ELSE PollOrShutdown(tasks)
    /\ call' = [call EXCEPT ![DrainCaller] = Idle]
    /\ UNCHANGED <<counters, quarantined, agentvars, telemetry, approvals,
                   healing_in_progress, memory, episodes_ended, exhausted, logvars, sweep>>

\* await asyncio.gather(*drain_tasks) returns when every drain task has
\* finished.
GatherDoneAtOnce(tasks) == TRUE
GatherDone(tasks) == \A c \in chains : c.id \notin tasks

\* asyncio.gather returns: every drain task has finished.
DrainGathered ==
    /\ Go /\ LoopFree
    /\ drain.pc = "gather"
    /\ GatherDone(drain.tasks)
    /\ PollOrShutdown(drain.tasks)
    /\ UNCHANGED <<counters, quarantined, agentvars, telemetry, approvals,
                   healvars, logvars, sweep, call>>

\* The poll loop wakes up: nothing is healing, or the deadline has passed
\* (timed_out: time.time() < deadline was false).
DrainPoll ==
    /\ Go /\ LoopFree
    /\ drain.pc = "poll"
    /\ \E timed_out \in BOOLEAN :
          /\ healing_in_progress = {} \/ timed_out
          /\ drain' = [drain EXCEPT !.pc = "done", !.timed_out = timed_out]
          /\ running' = FALSE
    /\ UNCHANGED <<counters, quarantined, agentvars, telemetry, approvals,
                   healvars, logvars, sweep, call>>

(***************************************************************************)
(* _log_action called over and over, by whichever thread: the calls are    *)
(* serialised by _action_log_lock, so a run of them is a sequence.         *)
(***************************************************************************)
LogTypes == <<"approval_requested", "user_approved", "user_rejected",
              "explicit_heal_requested", "healing_attempt">>

\* The entry of the n-th call; its timestamp is the call's number.
NthEntry(n) ==
    [type |-> LogTypes[(n % Len(LogTypes)) + 1],
     agent_id |-> AgentOrder[(n % Len(AgentOrder)) + 1],
     timestamp |-> n]

LogAppend ==
    /\ running
    /\ log_calls < MaxLogCalls
    /\ LogCall(NthEntry(log_calls + 1))
    /\ UNCHANGED <<running, counters, quarantined, agentvars, telemetry,
                   approvals, healvars, sweep, drain, call>>

(***************************************************************************)
(* Next-state relations.  When run() returns the process ends: nothing     *)
(* moves after the shutdown.                                               *)
(***************************************************************************)
\* The agents' loops and the chaos schedule.
Fleet ==
    \/ \E a \in Agents : AgentTick(a)
    \/ \E a \in Agents : AgentRecord(a)
    \/ ChaosWave

\* The warm-up, detection, the approval API on entries that exist, and
\* healing.
Workflow ==
    \/ Warmup
    \/ SweepBegin
    \/ SweepQuarantine
    \/ SweepPending
    \/ SweepLog
    \/ \E c \in chains : HealStart(c)
    \/ \E c \in chains : HealPlan(c)
    \/ \E c \in chains : HealSelect(c)
    \/ \E c \in chains : \E passed \in BOOLEAN : HealApplied(c, passed)
    \/ \E u \in UIThreads : \E a \in Agents : \E approved \in BOOLEAN :
          Has(pending, a) /\ UIApprove(u, a, approved)
    \/ \E u \in UIThreads : \E a \in Agents : Has(rejected, a) /\ UIHealNow(u, a)
    \/ \E u \in UIThreads : \E approved \in BOOLEAN :
          pending # <<>> /\ UIApproveAll(u, approved)
    \/ \E u \in UIThreads : rejected # <<>> /\ UIHealAll(u)
    \/ \E c \in Callers : CallNext(c)
    \/ \E c \in Callers : CallLog(c)
    \/ \E c \in Callers : CallStore(c)

\* The end of the run.
Drain ==
    \/ DrainBegin
    \/ DrainApproved
    \/ DrainHealed
    \/ DrainGathered
    \/ DrainPoll

\* Calls of the approval API for an agent that has no entry.
Misuse ==
    \/ \E u \in UIThreads : \E a \in Agents : \E approved \in BOOLEAN :
          ~Has(pending, a) /\ UIApprove(u, a, approved)
    \/ \E u \in UIThreads : \E a \in Agents : ~Has(rejected, a) /\ UIHealNow(u, a)

\* The orchestrator from start to shutdown.  A call for an agent without an
\* entry changes nothing (MissingEntry), so here it is a stuttering step; the
\* fleet's steps stand behind Warmup (the baselines) and otherwise write
\* status, infected, agent_pc and samples only, which no step of the workflow
\* reads on its way.
Next ==
    \/ Workflow
    \/ Drain
    \/ \E u \in UIThreads : UIReturn(u)

Spec == Init /\ [][Next]_vars

\* The run, with the calls that find no entry as steps of their own.
NextMisuse ==
    \/ Workflow
    \/ Misuse
    \/ \E u \in UIThreads : UIReturn(u)

SpecMisuse == Init /\ [][NextMisuse]_vars

\* The run alone.
NextRun ==
    \/ Workflow
    \/ \E u \in UIThreads : UIReturn(u)

SpecRun == Init /\ [][NextRun]_vars

\* The steps of the heal_agent tasks, of the sweep once it has detected, of
\* the calls in progress and of run() once the duration is over: the event
\* loop runs every ready task and each thread goes on after taking a lock.
HealSteps ==
    \/ \E c \in chains : HealStart(c)
    \/ \E c \in chains : HealPlan(c)
    \/ \E c \in chains : HealSelect(c)
    \/ \E c \in chains : \E passed \in BOOLEAN : HealApplied(c, passed)
SweepSteps == SweepQuarantine \/ SweepPending \/ SweepLog
CallSteps ==
    \/ \E c \in Callers : CallNext(c)
    \/ \E c \in Callers : CallLog(c)
    \/ \E c \in Callers : CallStore(c)
    \/ \E u \in UIThreads : UIReturn(u)
DrainSteps == DrainApproved \/ DrainHealed \/ DrainGathered \/ DrainPoll

\* The run with its drain, the dashboard approving and rejecting one agent
\* at a time.
NextDrain ==
    \/ Warmup
    \/ SweepBegin
    \/ SweepQuarantine
    \/ SweepPending
    \/ SweepLog
    \/ \E c \in chains : HealStart(c)
    \/ \E c \in chains : HealPlan(c)
    \/ \E c \in chains : HealSelect(c)
    \/ \E c \in chains : \E passed \in BOOLEAN : HealApplied(c, passed)
    \/ \E u \in UIThreads : \E a \in Agents : \E approved \in BOOLEAN :
          Has(pending, a) /\ UIApprove(u, a, approved)
    \/ \E c \in Callers : CallNext(c)
    \/ \E c \in Callers : CallLog(c)
    \/ \E c \in Callers : CallStore(c)
    \/ \E u \in UIThreads : UIReturn(u)
    \/ Drain

\* Every task of the loop and every thread that can go on does go on.
SpecDrainLive ==
    /\ Init /\ [][NextDrain]_vars
    /\ WF_vars(HealSteps)
    /\ WF_vars(SweepSteps)
    /\ WF_vars(CallSteps)
    /\ WF_vars(DrainSteps)

\* heal_agent's own steps: the sleeps end and the loop runs the task again.
HealMoves ==
    \/ \E c \in chains : HealStart(c)
    \/ \E c \in chains : HealPlan(c)
    \/ \E c \in chains : HealSelect(c)

\* As above, but a remediation (healer.apply_healing, which has no timeout)
\* may never return.
SpecDrainStuck ==
    /\ Init /\ [][NextDrain]_vars
    /\ WF_vars(HealMoves)
    /\ WF_vars(SweepSteps)
    /\ WF_vars(CallSteps)
    /\ WF_vars(DrainSteps)

\* The fleet under chaos, the sweep and the chains it starts by itself; no
\* dashboard, so an approval request waits.
NextFleet ==
    \/ \E a \in Agents : AgentTick(a)
    \/ \E a \in Agents : AgentRecord(a)
    \/ ChaosWave
    \/ SweepBegin
    \/ SweepQuarantine
    \/ SweepPending
    \/ SweepLog
    \/ \E c \in chains : HealStart(c)
    \/ \E c \in chains : HealPlan(c)
    \/ \E c \in chains : HealSelect(c)
    \/ \E c \in chains : \E passed \in BOOLEAN : HealApplied(c, passed)

SpecFleet == Init /\ [][NextFleet]_vars

\* A run of _log_action calls alone.
NextLog == LogAppend

SpecLog == Init /\ [][NextLog]_vars

(***************************************************************************)
(* Properties.                                                             *)
(***************************************************************************)
\* The chains of an agent that have run their first step.
ActiveChains(a) == {c \in chains : c.agent_id = a /\ c.pc # "start"}

\* C1: for every agent, at most one heal_agent chain is active (between its
\* first step and its terminal success or exhaustion), whichever of the
\* triggers (auto, user approval, heal now, the drain's two) created chains.
TheoremC1 == \A a \in Agents : Cardinality(ActiveChains(a)) <= 1

\* Two agents heal at once, one through the drain and one through another
\* trigger.
WitnessC1 ==
    \E c, d \in chains :
        /\ c.agent_id # d.agent_id
        /\ c.pc = "apply" /\ d.pc = "apply"
        /\ c.trigger \in {"drain_approve", "drain_heal_now"}
        /\ d.trigger \in {"auto", "user_approved", "heal_now"}

\* C2: no agent id is a key of both the pending and the rejected approvals.
TheoremC2 == \A a \in Agents : ~(Has(pending, a) /\ Has(rejected, a))

\* One agent waits rejected (a request thread has stored it) while the sweep,
\* in the middle of an iteration, has just put the other one in pending.
WitnessC2 ==
    /\ Has(rejected, "a1") /\ Has(pending, "a2")
    /\ sweep.pc = "log"

\* C3: every agent with a pending or a rejected approval is in the quarantine
\* set.
TheoremC3 ==
    \A a \in Agents : (Has(pending, a) \/ Has(rejected, a)) => a \in quarantined

\* Both agents wait, each in the pending or in the rejected approvals, and
\* both are quarantined.
WitnessC3 == Len(pending) + Len(rejected) = 2 /\ quarantined = Agents

\* C4: severity routing.  Processing a detection with severity at or above the
\* threshold leads to a pending entry with that report and leaves the agent
\* without a chain; a chain for such a report is only ever created from what a
\* returned approve or heal-now call handed back.  Processing a detection
\* below the threshold creates an "auto" chain for the report and no pending
\* entry; the pending map only ever holds reports at or above the threshold.
C4Step ==
    /\ (sweep.pc = "detected" /\ total_infections' # total_infections) =>
          LET inf == sweep.infection IN
          IF inf.severity >= SEVERITY_REQUIRING_APPROVAL
          THEN /\ sweep'.pc = "pending" /\ sweep'.infection = inf
               /\ ~\E c \in chains' : c.agent_id = inf.agent_id
          ELSE /\ \E c \in chains' \ chains : c.infection = inf /\ c.trigger = "auto"
               /\ ~Has(pending', inf.agent_id)
               /\ sweep'.pc # "pending"
    /\ (sweep.pc = "pending" /\ sweep'.pc # "pending") =>
          Get(pending', sweep.infection.agent_id).infection = sweep.infection
    /\ \A c \in chains' :
          (c.infection.severity >= SEVERITY_REQUIRING_APPROVAL
             /\ \A d \in chains : d.id # c.id) =>
          /\ c.trigger # "auto"
          /\ \E k \in Callers :
                /\ call[k].pc = "ret"
                /\ \E i \in 1..Len(Returned(call[k])) :
                      Returned(call[k])[i][2] = c.infection
    /\ \A i \in 1..Len(pending') :
          pending'[i].infection.severity >= SEVERITY_REQUIRING_APPROVAL
TheoremC4 == [][C4Step]_vars

\* A report at the threshold waits in pending for one agent while a milder one
\* heals the other agent automatically.
WitnessC4 ==
    /\ \E i \in 1..Len(pending) : pending[i].infection.severity = SEVERITY_REQUIRING_APPROVAL
    /\ \E c \in chains : c.trigger = "auto" /\ c.infection.severity < SEVERITY_REQUIRING_APPROVAL

\* C5: while an agent stays in the rejected approvals, no step of the sweep
\* takes the agent up, counts an infection for it, gives it a pending entry or
\* creates an "auto" chain for it.
C5Step ==
    \A a \in Agents : (Has(rejected, a) /\ Has(rejected', a)) =>
        /\ ~(sweep' # sweep /\ sweep'.pc # "sleep" /\ sweep'.infection.agent_id = a)
        /\ ~(total_infections' # total_infections /\ sweep.infection.agent_id = a)
        /\ ~(Has(pending', a) /\ ~Has(pending, a))
        /\ ~\E c \in chains' \ chains : c.agent_id = a /\ c.trigger = "auto"
TheoremC5 == [][C5Step]_vars

\* The first agent of the pool is rejected; a sweep has passed it and detected
\* the second one.
WitnessC5 ==
    /\ Has(rejected, AgentOrder[1])
    /\ sweep.pc = "detected" /\ sweep.infection.agent_id = AgentOrder[2]

\* C6: approve_all_pending(True), when no other approve_healing or
\* approve_all_pending call ran during it, returns one (agent id, infection)
\* pair per entry pending at its snapshot, in order, each with that entry's
\* report, and none of those agents is pending when it returns.
TheoremC6 ==
    \A c \in Callers :
        LET k == call[c] IN
        (k.pc = "ret" /\ k.op = "approve_all" /\ k.approved /\ k.alone) =>
            /\ Len(k.acc) = Len(k.snap)
            /\ \A i \in 1..Len(k.snap) :
                  /\ k.acc[i] = <<k.snap[i].agent_id, k.snap[i].infection>>
                  /\ ~Has(pending, k.snap[i].agent_id)

\* A request thread's approve_all_pending(True) has returned two pairs.
WitnessC6 ==
    \E u \in UIThreads :
        /\ call[u].pc = "ret" /\ call[u].op = "approve_all"
        /\ call[u].approved /\ call[u].alone
        /\ Len(call[u].snap) = 2 /\ Len(call[u].acc) = 2

\* The places that hold the report of detection n: the sweep before it has
\* stored it, the two maps, a call that popped it or returned it, a chain.
RECURSIVE CountIn(_, _)
CountIn(seq, n) ==
    IF seq = <<>> THEN 0
    ELSE (IF Head(seq).infection.n = n THEN 1 ELSE 0) + CountIn(Tail(seq), n)
RECURSIVE CountPairs(_, _)
CountPairs(seq, n) ==
    IF seq = <<>> THEN 0
    ELSE (IF Head(seq)[2].n = n THEN 1 ELSE 0) + CountPairs(Tail(seq), n)
RECURSIVE CountCallers(_, _)
CountCallers(cs, n) ==
    IF cs = {} THEN 0
    ELSE LET c == CHOOSE x \in cs : TRUE
             k == call[c]
         IN  (IF k.entry.infection.n = n THEN 1 ELSE 0)
             + (IF k.result.infection.n = n THEN 1 ELSE 0)
             + CountPairs(k.acc, n)
             + CountCallers(cs \ {c}, n)
Holders(n) ==
    (IF sweep.pc \in {"detected", "pending"} /\ sweep.infection.n = n THEN 1 ELSE 0)
    + CountIn(pending, n) + CountIn(rejected, n)
    + CountCallers(Callers, n)
    + Cardinality({c \in chains : c.infection.n = n})
Detections == 1..(total_infections + IF sweep.pc = "detected" THEN 1 ELSE 0)
Held == {n \in Detections : Holders(n) = 1}

\* C7: no approval is lost or duplicated.  Every report detected so far is in
\* exactly one place (pending, popped by one call, returned to one caller,
\* rejected, or in one chain) unless its chain has ended: no entry is consumed
\* by two calls or returned to two callers, and none disappears.
TheoremC7 ==
    /\ \A n \in Detections : Holders(n) <= 1
    /\ Cardinality(Held) + episodes_ended = Cardinality(Detections)

\* The drain's approve_all_pending holds an entry it popped; a request thread's
\* own approve_all_pending, whose snapshot has the same agent, comes next.
WitnessC7 ==
    \E u \in UIThreads :
        /\ call[DrainCaller].op = "approve_all" /\ call[DrainCaller].pc = "log"
        /\ call[u].op = "approve_all" /\ call[u].pc = "next"
        /\ Head(call[u].ids) = call[DrainCaller].entry.agent_id

\* C8: approve_healing for an agent without a pending entry returns
\* (None, False), start_healing_explicitly for an agent without a rejected
\* entry returns None, and neither changes the pending map, the rejected map,
\* the quarantine set, healing_in_progress or the action log.
C8Step ==
    \A u \in UIThreads :
        (/\ call[u].pc = "idle" /\ call'[u].pc = "ret"
         /\ call'[u].op \in {"approve", "heal_now"}) =>
            /\ ~Has(IF call'[u].op = "approve" THEN pending ELSE rejected,
                    call'[u].agent_id)
            /\ call'[u].result = NoResult
            /\ UNCHANGED <<pending, rejected, quarantined, healing_in_progress, log>>
TheoremC8 == [][C8Step]_vars

\* "Heal now" for an agent that is pending, not rejected, has returned None.
WitnessC8 ==
    \E u \in UIThreads :
        /\ call[u].pc = "ret" /\ call[u].op = "heal_now"
        /\ call[u].result = NoResult
        /\ Has(pending, call[u].agent_id)

\* The actions of a category's policy outside a set, in policy order.
PolicyWithout(diagnosis_type, actions) ==
    SelectSeq(GetHealingPolicy(diagnosis_type), LAMBDA act : act \notin actions)

\* A chain about to find no action left.
Exhausting(c) ==
    c.pc = "plan" /\ GetNextAction(Diagnose(c.infection), c.failed_actions) = None

\* C9 as stated: a chain whose actions all fail applies every action of the
\* policy, N of them, before it exhausts.
OriginalC9 ==
    \A c \in chains :
        Exhausting(c) => c.tried = GetHealingPolicy(Diagnose(c.infection))

\* C9, amended: a chain whose actions all fail applies, one after the other,
\* exactly the policy's actions that immune memory did not hold as failed for
\* the (agent, category) when the chain started (all N when it held none),
\* then exhausts: the chain ends, the agent leaves quarantine, and is not
\* healed.
C9Step ==
    \A c \in chains :
        /\ Exhausting(c) =>
              c.tried = PolicyWithout(Diagnose(c.infection), c.known)
        /\ (Exhausting(c) /\ \A d \in chains' : d.id # c.id) =>
              /\ c.agent_id \notin quarantined'
              /\ total_healed' = total_healed
              /\ infected' = infected
TheoremC9 == [][C9Step]_vars

\* A chain has applied both actions of its policy and is about to exhaust.
WitnessC9 ==
    \E c \in chains : Exhausting(c) /\ Len(c.tried) = 2 /\ c.known = {}

\* C10: an escalation step never selects an action the chain has already
\* applied and seen fail.
TheoremC10 ==
    \A c \in chains :
        c.pc = "apply" => \A i \in 1..Len(c.tried) : c.tried[i] # c.action

\* A chain's second step has selected the policy's second action.
WitnessC10 ==
    \E c \in chains : c.pc = "apply" /\ Len(c.tried) = 1 /\ c.action # c.tried[1]

\* C11: the action log never holds more than the cap (80) of entries; after n
\* calls of _log_action it holds exactly the min(n, cap) entries appended
\* last, in the order they were appended.
TheoremC11 ==
    /\ Len(log) <= ActionLogMax
    /\ Len(log) = (IF log_calls < ActionLogMax THEN log_calls ELSE ActionLogMax)
    /\ \A i \in 1..Len(log) : log[i] = NthEntry(log_calls - Len(log) + i)

\* Twenty entries more than the cap have been appended.
WitnessC11 == log_calls = ActionLogMax + 20 /\ Len(log) = ActionLogMax

\* The pool the drain is run on: every quarantined agent waits in the pending
\* or in the rejected approvals, and nothing is healing or about to.
PoolSettled ==
    /\ \A a \in quarantined : Has(pending, a) \/ Has(rejected, a)
    /\ chains = {}
    /\ healing_in_progress = {}

\* run() has just taken the snapshot of its approve_all_pending(True).
DrainJustBegun ==
    /\ drain.pc = "approve_all"
    /\ call[DrainCaller].op = "approve_all"
    /\ call[DrainCaller].snap = pending
    /\ call[DrainCaller].acc = <<>>
    /\ PoolSettled

\* While the drain runs the sweep detects nothing and the dashboard makes no
\* approval call.
DrainUndisturbed ==
    drain.pc # "run" =>
        /\ sweep.pc = "sleep"
        /\ \A u \in UIThreads : call[u].pc = "idle"

Converged == ~running /\ quarantined = {} /\ healing_in_progress = {}

OriginalC13 == (drain.pc # "run") ~> ~running

\* C14: when run() clears the running flag, no agent is left in the pending
\* or in the rejected approvals, however the drain interleaves with the sweep
\* and with the dashboard's approve and reject calls.
OriginalC14 == ~running => (pending = <<>> /\ rejected = <<>>)

\* C15: an agent is in healing_in_progress in every state from the first step
\* of its heal_agent chain to the chain's terminal success or exhaustion, the
\* recursive escalation steps included, and in no other state.
TheoremC15 ==
    \A a \in Agents : a \in healing_in_progress <=> ActiveChains(a) # {}

\* One chain has ended; another is between a failed action and the
\* recursive call, its agent still marked.
WitnessC15 ==
    /\ episodes_ended >= 1
    /\ \E c \in chains :
          /\ c.pc = "escalate" /\ Len(c.tried) = 1
          /\ healing_in_progress = {c.agent_id}

\* C16: once the healing episode of an infected agent has ended in
\* exhaustion, no healing chain exists for the agent again unless it is
\* infected anew.
OriginalC16 ==
    \A a \in exhausted : infected[a] => \A c \in chains : c.agent_id # a

\* C17: the step in which heal_agent finds no action left takes the agent out
\* of the quarantine set, sets its status as release() does (infected if it
\* is infected, healthy otherwise) without curing it, and leaves immune
\* memory, the action log, total_healed and total_failed_healings unchanged.
C17Step ==
    \A c \in chains :
        (Exhausting(c) /\ \A d \in chains' : d.id # c.id) =>
            /\ quarantined' = quarantined \ {c.agent_id}
            /\ status'[c.agent_id] =
                  (IF infected[c.agent_id] THEN "infected" ELSE "healthy")
            /\ infected' = infected
            /\ UNCHANGED <<memory, log, total_healed, total_failed_healings>>
TheoremC17 == [][C17Step]_vars

\* An infected agent has been released unhealed: out of quarantine, still
\* infected, both actions recorded as failed.
WitnessC17 ==
    \E a \in exhausted :
        /\ infected[a] /\ status[a] = "infected" /\ a \notin quarantined
        /\ total_failed_healings = 2 /\ total_healed = 0

\* The step is the return of apply_healing in chain c.
Applies(c) == c.pc = "apply" /\ c \notin chains'
\* Chain c is over after the step.
Ends(c) == \A d \in chains' : d.id # c.id

\* C18: every applied action adds exactly one record to immune memory, under
\* the key (agent, fault category, action), and exactly one healing_attempt
\* entry to the action log; the entry's trigger is the one the chain was
\* created with, which no step of the chain changes.
C18Step ==
    /\ \A c \in chains : Applies(c) =>
          /\ \E success \in BOOLEAN :
                /\ memory' = [memory EXCEPT
                                 ![<<c.agent_id, Diagnose(c.infection),
                                     c.action, success>>] = @ + 1]
                /\ log'[Len(log')] =
                      [type |-> "healing_attempt", agent_id |-> c.agent_id,
                       diagnosis_type |-> Diagnose(c.infection),
                       action |-> c.action, success |-> success,
                       trigger |-> c.trigger]
          /\ log_calls' = log_calls + 1
          /\ Len(log') = Len(log) + 1
    /\ \A c \in chains : \A d \in chains' : d.id = c.id => d.trigger = c.trigger
    /\ (memory' # memory) => \E c \in chains : Applies(c)
TheoremC18 == [][C18Step]_vars

\* A chain started by "Heal now" is at its second action after the first one
\* failed, both attempts to be logged with that trigger.
WitnessC18 ==
    \E c \in chains :
        /\ c.trigger = "heal_now" /\ c.pc = "apply" /\ Len(c.tried) = 1
        /\ log[Len(log)].type = "healing_attempt"
        /\ log[Len(log)].trigger = "heal_now"

\* C19: a passing action ends the chain: the agent leaves the quarantine set
\* and total_healed grows by exactly one (so a chain counts at most once); a
\* failing action adds exactly one to total_failed_healings and leaves the
\* agent quarantined and the chain going.
C19Step ==
    /\ \A c \in chains : Applies(c) =>
          LET passed == log'[Len(log')].success IN
          /\ passed <=> Ends(c)
          /\ passed =>
                /\ quarantined' = quarantined \ {c.agent_id}
                /\ total_healed' = total_healed + 1
                /\ total_failed_healings' = total_failed_healings
          /\ ~passed =>
                /\ total_failed_healings' = total_failed_healings + 1
                /\ total_healed' = total_healed
                /\ quarantined' = quarantined
                /\ c.agent_id \in quarantined'
    /\ (total_healed' # total_healed \/ total_failed_healings' # total_failed_healings)
          => \E c \in chains : Applies(c)
TheoremC19 == [][C19Step]_vars

\* A chain has failed once and then healed its agent.
WitnessC19 ==
    /\ total_healed = 1 /\ total_failed_healings = 1
    /\ episodes_ended = 1 /\ quarantined = {} /\ chains = {}

\* C20: the reject / heal-now round trip.  approve_healing(id, False) pops
\* the pending entry, stores it in the rejected approvals with its report and
\* returns (None, False); start_healing_explicitly(id) pops the rejected entry
\* and returns that same report; a rejected entry stays as it is until a
\* heal-now call (single or bulk) pops it, and nothing else removes it.
C20Step ==
    /\ \A c \in Callers :
          LET k == call[c]
              k2 == call'[c]
          IN  /\ (k.pc # "log" /\ k2.pc = "log") =>
                    /\ k2.entry = Get(MapOf(k2.op), k2.agent_id)
                    /\ k2.entry # NoEntry
                    /\ k2.entry.infection.agent_id = k2.agent_id
                    /\ k2.op \in ApproveOps => ~Has(pending', k2.agent_id)
                    /\ k2.op \in HealNowOps => ~Has(rejected', k2.agent_id)
              /\ (k.pc = "store" /\ k2.pc # "store") =>
                    /\ Get(rejected', k.agent_id).infection = k.entry.infection
                    /\ k.op = "approve" => (k2.pc = "ret" /\ k2.result = NoResult)
              /\ (k.pc = "log" /\ k.op = "heal_now" /\ k2.pc # "log") =>
                    /\ k2.pc = "ret"
                    /\ k2.result.infection = k.entry.infection
    /\ \A a \in Agents :
          /\ (Has(rejected, a) /\ Has(rejected', a)) =>
                Get(rejected', a) = Get(rejected, a)
          /\ (Has(rejected, a) /\ ~Has(rejected', a)) =>
                \E c \in Callers :
                    /\ call'[c].op \in HealNowOps /\ call'[c].pc = "log"
                    /\ call'[c].agent_id = a /\ call[c].pc # "log"
          /\ (~Has(rejected, a) /\ Has(rejected', a)) =>
                \E c \in Callers :
                    /\ call[c].op \in ApproveOps /\ ~call[c].approved
                    /\ call[c].pc = "store" /\ call[c].agent_id = a
TheoremC20 == [][C20Step]_vars

\* "Heal now" has returned the report of an agent that was rejected before.
WitnessC20 ==
    \E u \in UIThreads :
        /\ call[u].op = "heal_now" /\ call[u].pc = "ret"
        /\ call[u].result.infection.agent_id = call[u].agent_id
        /\ ~Has(rejected, call[u].agent_id)
        /\ \E i \in 1..Len(log) :
              log[i].type = "user_rejected" /\ log[i].agent_id = call[u].agent_id

\* C21: the approval operations never start healing.  A step of
\* approve_healing, approve_all_pending, start_healing_explicitly or
\* start_healing_all_rejected (a call that has not returned yet moves on)
\* leaves healing_in_progress, the quarantine set, the agents' status, the
\* counters and the heal_agent tasks as they are; of the orchestrator's
\* state it writes only the pending map, the rejected map and the action log.
ApiStep(c) ==
    /\ call[c].pc \in {"idle", "next", "log", "store"}
    /\ call'[c] # call[c]
C21Step ==
    (\E c \in Callers : ApiStep(c)) =>
        UNCHANGED <<running, counters, quarantined, agentvars, telemetry,
                    healvars, sweep>>
TheoremC21 == [][C21Step]_vars

\* approve_healing(a, True) has returned the report and logged the approval,
\* and nothing is healing: the agent is quarantined with no task for it.
WitnessC21 ==
    \E u \in UIThreads :
        /\ call[u].op = "approve" /\ call[u].pc = "ret"
        /\ call[u].result.approved
        /\ call[u].agent_id \in quarantined
        /\ chains = {} /\ healing_in_progress = {}
        /\ log # <<>> /\ log[Len(log)].type = "user_approved"

\* C22: an iteration of run_agent_loop that starts while the agent is in the
\* quarantine set goes to sleep without invoking execute and without recording
\* a sample; execute is entered only by an iteration that found the agent
\* not quarantined, and a sample is recorded only when an execute returns.
C22Step ==
    \A a \in Agents :
        /\ (agent_pc[a] \in {"tick", "skip"} /\ agent_pc'[a] # agent_pc[a]) =>
              /\ samples'[a] = samples[a]
              /\ agent_pc'[a] = (IF a \in quarantined THEN "skip" ELSE "exec")
        /\ (agent_pc[a] # "exec" /\ agent_pc'[a] = "exec") => a \notin quarantined
        /\ samples'[a] # samples[a] =>
              /\ agent_pc[a] = "exec" /\ agent_pc'[a] = "tick"
              /\ samples'[a] = samples[a] + 1
TheoremC22 == [][C22Step]_vars

\* A quarantined agent is sleeping out a tick it skipped; it holds only the
\* sample recorded before the quarantine.
WitnessC22 ==
    \E a \in Agents :
        /\ agent_pc[a] = "skip" /\ a \in quarantined
        /\ samples[a] = MinSamples

\* C23: the sweep raises no detection for an agent that is quarantined or has
\* no baseline.  total_infections grows by one exactly in the step that takes
\* an agent from outside the quarantine set into it and sets its status to
\* quarantined, and in no other step.
C23Step ==
    /\ total_infections' # total_infections =>
          /\ total_infections' = total_infections + 1
          /\ \E a \in Agents :
                /\ a \notin quarantined /\ a \in baseline
                /\ quarantined' = quarantined \cup {a}
                /\ status'[a] = "quarantined"
    /\ \A a \in Agents : (a \notin quarantined /\ a \in quarantined') =>
          /\ total_infections' = total_infections + 1
          /\ status'[a] = "quarantined"
    /\ \A a \in Agents : (sweep'.pc = "detected" /\ sweep'.infection.agent_id = a) =>
          a \notin quarantined' /\ a \in baseline'
TheoremC23 == [][C23Step]_vars

\* The second detection of a run: one agent was quarantined, healed and
\* released, and is quarantined again, while the other has no baseline yet.
WitnessC23 ==
    /\ total_infections = 2 /\ total_healed = 1
    /\ Cardinality(quarantined) = 1
    /\ Agents \ baseline # {}
    /\ sweep.pc = "sleep"

\* C24: shutdown ordering.  running is cleared, and with it the loops are
\* stopped, only by run() at the end of the drain: every heal_agent task the
\* drain scheduled has ended, and healing_in_progress was found empty or the
\* drain timeout elapsed.  Until then running stays set, so the sweep and the
\* agents' loops go on during the whole drain wait.
DrainTriggers == {"drain_approve", "drain_heal_now"}
C24Step ==
    /\ (running /\ ~running') =>
          /\ drain.pc \in {"heal_all", "gather", "poll"}
          /\ drain'.pc = "done"
          /\ \A c \in chains : c.trigger \notin DrainTriggers
          /\ \A c \in chains : c.id \notin drain'.tasks
          /\ healing_in_progress = {} \/ drain'.timed_out
          /\ healing_in_progress' = healing_in_progress
    /\ drain.pc # "done" => running
    /\ ~running => UNCHANGED vars
TheoremC24 == [][C24Step]_vars

\* The run was shut down on the drain timeout: the drain's own tasks have
\* ended, and a chain the sweep started during the drain wait is still
\* healing.
WitnessC24 ==
    /\ ~running /\ drain.pc = "done" /\ drain.timed_out
    /\ drain.tasks # {}
    /\ \E c \in chains :
          /\ c.trigger = "auto" /\ c.agent_id \in healing_in_progress
          /\ \A t \in drain.tasks : c.id > t

\* C25: total_healed never exceeds total_infections, so the success rate of
\* the summary is at most 100%: a detection whose report is still held
\* somewhere (a map, a call, a task) has not been healed, and one that has
\* been healed is held nowhere, so it is healed at most once.
Unsettled == {n \in 1..total_infections : Holders(n) >= 1}
TheoremC25 ==
    /\ total_healed <= total_infections
    /\ total_healed + Cardinality(Unsettled) <= total_infections

\* Every detection of the run has been healed, one of them at the second
\* action.
WitnessC25 ==
    /\ total_infections = MaxInfections /\ total_healed = total_infections
    /\ total_failed_healings = 1

\* C26: no quarantined agent is orphaned: every agent in the quarantine set
\* is in the pending approvals, in the rejected approvals or in
\* healing_in_progress (so with the three empty, nobody is quarantined).
OriginalC26 ==
    \A a \in quarantined :
        Has(pending, a) \/ Has(rejected, a) \/ a \in healing_in_progress

\* C27: no telemetry sample is recorded for an agent while the agent is in
\* the quarantine set, however the agent's loop (suspended inside execute
\* between its quarantine check and its record call) interleaves with the
\* sweep.
C27Step == \A a \in Agents : samples'[a] # samples[a] => a \notin quarantined
OriginalC27 == [][C27Step]_vars

\* C28: quarantine membership and agent status agree: an agent is in the
\* quarantine set exactly when its status is quarantined, also when a chaos
\* wave infects, or a remediation cures, an agent that is quarantined.
OriginalC28 == \A a \in Agents : a \in quarantined <=> status[a] = "quarantined"

\* C29: the action log has the workflow transitions of each agent in their
\* order: every user_approved / user_rejected entry has its episode's
\* approval_requested entry before it, and every explicit_heal_requested
\* entry its user_rejected entry, however the sweep and the request threads
\* interleave.
Logged(a, types, i) ==
    Cardinality({j \in 1..i : log[j].agent_id = a /\ log[j].type \in types})
Decisions == {"user_approved", "user_rejected"}
RequestFirst ==
    \A i \in 1..Len(log) :
        log[i].type \in Decisions =>
            Logged(log[i].agent_id, {"approval_requested"}, i)
                >= Logged(log[i].agent_id, Decisions, i)
RejectFirst ==
    \A i \in 1..Len(log) :
        log[i].type = "explicit_heal_requested" =>
            Logged(log[i].agent_id, {"user_rejected"}, i)
                >= Logged(log[i].agent_id, {"explicit_heal_requested"}, i)
OriginalC29 == RequestFirst /\ RejectFirst
=============================================================================
